---- MODULE Spec2Model ----
(***************************************************************************)
(* pylatex/quantities.py: the translation of a dimensionality (a mapping   *)
(* from unit to exponent) into siunitx markup, and the constructor of the  *)
(* Quantity command that wraps a number or a quantity.                     *)
(*                                                                         *)
(* A Python str is a sequence of one-character strings, so that            *)
(* startswith, slicing and concatenation are computed as the code computes *)
(* them.  A mapping is a sequence of <<unit name, power>> pairs with       *)
(* distinct unit names, in the mapping's iteration order.                  *)
(***************************************************************************)
EXTENDS Integers, Sequences, FiniteSets, TLC

VARIABLES
    pc,         \* "ready" | "done": the translator has (not) been called on dim
    dim,        \* the dimensionality handed to _dimensionality_to_siunitx
    string,     \* the value the translator returned last
    ncalls,     \* how many times the translator has been called on dim
    quantity,   \* Quantity.__init__'s argument `quantity`
    options,    \* Quantity.__init__'s keyword `options`
    format_cb,  \* Quantity.__init__'s keyword `format_cb`
    self,       \* the Quantity object under construction / constructed
    calls       \* the formatter calls __init__ made, in order

vars == <<pc, dim, string, ncalls, quantity, options, format_cb, self, calls>>

----------------------------------------------------------------------------
(* Bounds of the model. *)

\* the largest absolute exponent of a unit
MaxPower == 2
\* the largest number of units in a dimensionality
MaxUnits == 2
\* the largest number of calls of the translator on one mapping
MaxCalls == 2

----------------------------------------------------------------------------
(* String literals of the source. *)

BACKSLASH == <<"\\">>
PER == <<"\\","p","e","r">>
TOTHE_OPEN == <<"\\","t","o","t","h","e","{">>
CLOSE_BRACE == <<"}">>
PLUS_MINUS == <<" ","+","-"," ">>

\* names of units of the quantities package (unit.name)
meter == <<"m","e","t","e","r">>
second == <<"s","e","c","o","n","d">>
kilometer == <<"k","i","l","o","m","e","t","e","r">>
Celsius == <<"C","e","l","s","i","u","s">>
decameter == <<"d","e","c","a","m","e","t","e","r">>
milliarcdegree == <<"m","i","l","l","i","a","r","c","d","e","g","r","e","e">>

UnitNames == {meter, second, kilometer, Celsius, decameter, milliarcdegree}

\* Translations for names used in the quantities package to ones used by
\* SIunitx.
UNIT_NAME_TRANSLATIONS ==
       (<<"C","e","l","s","i","u","s">>
        :> <<"c","e","l","s","i","u","s">>)
    @@ (<<"r","e","v","o","l","u","t","i","o","n","s","_","p","e","r","_","m","i","n","u","t","e">>
        :> <<"r","p","m">>)
    @@ (<<"a","r","c","d","e","g","r","e","e">>
        :> <<"d","e","g","r","e","e">>)
    @@ (<<"d","e","g","r","e","e","s","_","n","o","r","t","h">>
        :> <<"d","e","g","N">>)
    @@ (<<"d","e","g","r","e","e","s","_","e","a","s","t">>
        :> <<"d","e","g","E">>)
    @@ (<<"d","e","g","r","e","e","s","_","w","e","s","t">>
        :> <<"d","e","g","W">>)
    @@ (<<"d","e","g","r","e","e","s","_","t","r","u","e">>
        :> <<"d","e","g","T">>)
    @@ (<<"c","i","r","c","u","l","a","r","_","m","i","l">>
        :> <<"c","m","i","l">>)
    @@ (<<"a","m","p","e","r","e","_","t","u","r","n">>
        :> <<"a","m","p","e","r","e","t","u","r","n">>)
    @@ (<<"e","l","e","m","e","n","t","a","r","y","_","c","h","a","r","g","e">>
        :> <<"e","l","e","m","e","n","t","a","r","y","c","h","a","r","g","e">>)

\* dir(pq.prefixes): the names of the prefix registry of the quantities
\* package, in dir()'s sorted order.  The registry is not part of this
\* repository; the listing holds a sample of its names, private names
\* among them, and one overlapping pair ("d", "deca").
PQ_PREFIXES_DIR ==
    << <<"M","i">>,
       <<"_","_","d","o","c","_","_">>,
       <<"_","p","q">>,
       <<"d">>,
       <<"d","e","c","a">>,
       <<"k","i","l","o">>,
       <<"m","i","l","l","i">> >>

----------------------------------------------------------------------------
(* Python built-ins the translator uses. *)

\* str.startswith
startswith(s, p) == Len(p) <= Len(s) /\ SubSeq(s, 1, Len(p)) = p

\* s[n:]
slice_from(s, n) == SubSeq(s, n + 1, Len(s))

Digit(n) == <<"0","1","2","3","4","5","6","7","8","9">>[n + 1]

\* str(n) of an int
RECURSIVE str(_)
str(n) ==
    IF n < 0 THEN <<"-">> \o str(-n)
    ELSE IF n < 10 THEN <<Digit(n)>>
    ELSE str(n \div 10) \o <<Digit(n % 10)>>

\* sorted(items, key=itemgetter(1), reverse=True): insert one item into a
\* list sorted by descending power, behind every item whose power is not
\* smaller (equal keys keep their original order, also under reverse=True).

\* sorted() that puts an item in front of the items of equal power
RECURSIVE insert_reverse_unstable(_, _)
insert_reverse_unstable(item, sorted) ==
    IF sorted = <<>> THEN <<item>>
    ELSE IF Head(sorted)[2] > item[2]
         THEN <<Head(sorted)>> \o insert_reverse_unstable(item, Tail(sorted))
         ELSE <<item>> \o sorted

RECURSIVE insert_reverse(_, _)
insert_reverse(item, sorted) ==
    IF sorted = <<>> THEN <<item>>
    ELSE IF Head(sorted)[2] >= item[2]
         THEN <<Head(sorted)>> \o insert_reverse(item, Tail(sorted))
         ELSE <<item>> \o sorted

RECURSIVE sorted_reverse(_)
sorted_reverse(items) ==
    IF items = <<>> THEN <<>>
    ELSE insert_reverse(items[Len(items)],
                        sorted_reverse(SubSeq(items, 1, Len(items) - 1)))

----------------------------------------------------------------------------
(* _dimensionality_to_siunitx *)

\* prefixes = [x for x in dir(pq.prefixes) if not x.startswith('_')]
prefixes == SelectSeq(PQ_PREFIXES_DIR, LAMBDA x : ~startswith(x, <<"_">>))

\* if power < 0: substring = r'\per' ... else: substring = ''
inverse_marker(power) == IF power < 0 THEN PER ELSE <<>>


\* the power left as it is
negated_not(power) == power

\* if power < 0: power = -power
negated(power) == IF power < 0 THEN -power ELSE power


\* the loop over prefixes without its break: the last match wins
RECURSIVE split_prefix_last(_, _)
split_prefix_last(unit_name, i) ==
    IF i > Len(prefixes)
    THEN [marker |-> <<>>, name |-> unit_name]
    ELSE LET rest == split_prefix_last(unit_name, i + 1)
         IN  IF rest.marker # <<>> \/ ~startswith(unit_name, prefixes[i])
             THEN rest
             ELSE [marker |-> BACKSLASH \o prefixes[i],
                   name |-> slice_from(unit_name, Len(prefixes[i]))]

\* the for/else over prefixes: the first prefix the unit name starts with
\* adds '\\' + prefix to the substring and leaves the rest of the name;
\* without one the substring gets nothing and the name is the full name.
RECURSIVE split_prefix(_, _)
split_prefix(unit_name, i) ==
    IF i > Len(prefixes)
    THEN [marker |-> <<>>, name |-> unit_name]
    ELSE IF startswith(unit_name, prefixes[i])
         THEN [marker |-> BACKSLASH \o prefixes[i],
               name |-> slice_from(unit_name, Len(prefixes[i]))]
         ELSE split_prefix(unit_name, i + 1)

\* try: name = UNIT_NAME_TRANSLATIONS[name]  except KeyError: pass
translate(name) ==
    IF name \in DOMAIN UNIT_NAME_TRANSLATIONS
    THEN UNIT_NAME_TRANSLATIONS[name]
    ELSE name

\* if power > 1: substring += r'\tothe{' + str(power) + '}'
exponent_suffix(power) ==
    IF power > 1 THEN TOTHE_OPEN \o str(power) \o CLOSE_BRACE ELSE <<>>


\* the translation looked up under the full unit name
unit_markup_full_name(unit_name) ==
    LET split == split_prefix(unit_name, 1)
    IN  split.marker \o BACKSLASH \o
            (IF unit_name \in DOMAIN UNIT_NAME_TRANSLATIONS
             THEN UNIT_NAME_TRANSLATIONS[unit_name]
             ELSE split.name)

\* the part of the loop body that does not depend on the power
unit_markup(unit_name) ==
    LET split == split_prefix(unit_name, 1)
    IN  split.marker \o BACKSLASH \o translate(split.name)


\* no power is skipped
skipped_never(power) == FALSE

\* elif power == 0: continue
skipped(power) == power = 0

\* one iteration of the loop: what it appends to string
substring(unit_name, power) ==
    IF skipped(power) THEN <<>>
    ELSE inverse_marker(power) \o unit_markup(unit_name)
            \o exponent_suffix(negated(power))

RECURSIVE concat_substrings(_)
concat_substrings(items) ==
    IF items = <<>> THEN <<>>
    ELSE substring(items[1][1], items[1][2]) \o concat_substrings(Tail(items))

_dimensionality_to_siunitx(d) == concat_substrings(sorted_reverse(d))

----------------------------------------------------------------------------
(* Values of the Python program. *)

None == [type |-> "NoneType"]

\* isinstance(obj, classes): quantities.UncertainQuantity is a subclass of
\* quantities.Quantity.
bases(type) ==
    IF type = "UncertainQuantity" THEN {"UncertainQuantity", "Quantity"}
    ELSE {type}

isinstance(obj, classes) == bases(obj.type) \cap classes # {}

\* quantity.magnitude is a numpy array, quantity.uncertainty a Quantity
magnitude_of(q) == [type |-> "ndarray", repr |-> q.magnitude]
uncertainty_of(q) == [type |-> "Quantity", repr |-> q.uncertainty]

\* np.array_str(val) raises AttributeError on a value that is no array
\* (a Python float or int, line 157)
array_str_raises(val) == val.type \notin {"ndarray", "Quantity", "UncertainQuantity"}

\* The formatters are not part of quantities.py: each result is the term
\* that names the formatter and the value it was given.
np_array_str(val) == <<"np.array_str(", val.repr, ")">>
escape_latex(val) == <<"escape_latex(", val.repr, ")">>
call_cb(cb, val) == <<cb.name, "(", val.repr, ")">>


\* _format that tries np.array_str first and the callback only when it fails
_format_cb_last(val, cb) ==
    IF ~array_str_raises(val)
    THEN [result |-> np_array_str(val),
          calls |-> << <<"np.array_str", val.repr>> >>]
    ELSE IF cb = None
    THEN [result |-> escape_latex(val),
          calls |-> << <<"np.array_str", val.repr>>,
                       <<"escape_latex", val.repr>> >>]
    ELSE [result |-> call_cb(cb, val),
          calls |-> << <<"np.array_str", val.repr>>,
                       <<"format_cb", val.repr>> >>]

\* _format(val), with the calls it makes in order
_format(val, cb) ==
    IF cb = None
    THEN IF ~array_str_raises(val)
         THEN [result |-> np_array_str(val),
               calls |-> << <<"np.array_str", val.repr>> >>]
         ELSE [result |-> escape_latex(val),
               calls |-> << <<"np.array_str", val.repr>>,
                            <<"escape_latex", val.repr>> >>]
    ELSE [result |-> call_cb(cb, val),
          calls |-> << <<"format_cb", val.repr>> >>]


\* the two isinstance tests in the other order
magnitude_str_quantity_first(q, cb) ==
    IF isinstance(q, {"Quantity"})
    THEN LET m == _format(magnitude_of(q), cb)
         IN  [bound |-> TRUE, value |-> m.result, calls |-> m.calls]
    ELSE IF isinstance(q, {"UncertainQuantity"})
    THEN LET m == _format(magnitude_of(q), cb)
             u == _format(uncertainty_of(q), cb)
         IN  [bound |-> TRUE,
              value |-> m.result \o PLUS_MINUS \o u.result,
              calls |-> m.calls \o u.calls]
    ELSE [bound |-> FALSE, value |-> <<>>, calls |-> <<>>]

\* lines 161-165: magnitude_str stays unbound when quantity is neither
magnitude_str(q, cb) ==
    IF isinstance(q, {"UncertainQuantity"})
    THEN LET m == _format(magnitude_of(q), cb)
             u == _format(uncertainty_of(q), cb)
         IN  [bound |-> TRUE,
              value |-> m.result \o PLUS_MINUS \o u.result,
              calls |-> m.calls \o u.calls]
    ELSE IF isinstance(q, {"Quantity"})
    THEN LET m == _format(magnitude_of(q), cb)
         IN  [bound |-> TRUE, value |-> m.result, calls |-> m.calls]
    ELSE [bound |-> FALSE, value |-> <<>>, calls |-> <<>>]

\* Command.__init__(command, arguments, options): the command name, the
\* argument list, and the options, absent when none are given; both lists
\* escape their items until told otherwise.
Command__init__(obj, command, arguments, opts) ==
    [obj EXCEPT
        !.attrs = @ \cup {"latex_name", "arguments", "options"},
        !.latex_name = command,
        !.arguments = [type |-> "Arguments", items |-> arguments,
                       _escape |-> TRUE],
        !.options = IF opts = None THEN None
                    ELSE [type |-> "Options", items |-> opts.items,
                          _escape |-> TRUE]]


\* the test of line 167 without pq.Quantity
is_dimensional_uncertain_only(q) == isinstance(q, {"UncertainQuantity"})

\* line 167: which macro the quantity is rendered with
is_dimensional(q) == isinstance(q, {"UncertainQuantity", "Quantity"})

\* an else branch that takes numbers only: any other value leaves the
\* object as it was
dispatch_numbers_only(obj, q, opts, cb) ==
    LET ms == magnitude_str(q, cb)
    IN  IF is_dimensional(q)
        THEN LET unit_str == _dimensionality_to_siunitx(q.dimensionality)
             IN  [obj |-> Command__init__(obj, "SI",
                                          <<ms.value, unit_str>>, opts),
                  calls |-> ms.calls]
        ELSE IF q.type \in {"float", "ndarray"}
        THEN LET f == _format(q, cb)
             IN  [obj |-> Command__init__(obj, "num", <<f.result>>, opts),
                  calls |-> ms.calls \o f.calls]
        ELSE [obj |-> obj, calls |-> ms.calls]

\* lines 161-173: the branch on the quantity's shape, up to super().__init__
dispatch(obj, q, opts, cb) ==
    LET ms == magnitude_str(q, cb)
    IN  IF is_dimensional(q)
        THEN LET unit_str == _dimensionality_to_siunitx(q.dimensionality)
             IN  [obj |-> Command__init__(obj, "SI",
                                          <<ms.value, unit_str>>, opts),
                  calls |-> ms.calls]
        ELSE LET f == _format(q, cb)
             IN  [obj |-> Command__init__(obj, "num", <<f.result>>, opts),
                  calls |-> ms.calls \o f.calls]


\* escaping disabled on the arguments only
disable_escaping_arguments_only(obj) ==
    [obj EXCEPT !.arguments._escape = FALSE]

\* lines 175-177
disable_escaping(obj) ==
    LET a == [obj EXCEPT !.arguments._escape = FALSE]
    IN  IF a.options # None
        THEN [a EXCEPT !.options._escape = FALSE]
        ELSE a

\* an object before __init__ has run: no attribute is set
NewObject ==
    [attrs |-> {}, quantity |-> None, _format_cb |-> None,
     latex_name |-> "", arguments |-> None, options |-> None]

----------------------------------------------------------------------------
(* The inputs. *)

Powers == (-MaxPower) .. MaxPower

RECURSIVE Mappings(_)
Mappings(n) ==
    IF n = 0 THEN {<<>>}
    ELSE LET shorter == Mappings(n - 1)
         IN  shorter \cup
             { m \o << <<u, p>> >> :
                 m \in {x \in shorter : Len(x) = n - 1},
                 u \in UnitNames, p \in Powers }

names_of(m) == {m[i][1] : i \in 1 .. Len(m)}

\* the keys of a mapping are distinct
Dims == {m \in Mappings(MaxUnits) : Cardinality(names_of(m)) = Len(m)}

\* the dimensionalities of the docstring's examples, and two with a prefix
\* and a translated name
QuantityDims ==
    { << <<meter, 1>>, <<second, -1>> >>,
      << <<meter, 2>> >>,
      << <<meter, 1>> >>,
      << <<kilometer, 1>>, <<Celsius, -1>> >> }

Magnitudes == {"3.14159265", "16.0"}
Uncertainties == {"0.3"}

Quantities ==
         { [type |-> t, repr |-> r, magnitude |-> "", uncertainty |-> "",
            dimensionality |-> <<>>] :
             t \in {"float", "ndarray"}, r \in {"6.022140857e23", "42"} }
    \cup { [type |-> "str", repr |-> "abc", magnitude |-> "",
            uncertainty |-> "", dimensionality |-> <<>>] }
    \cup { [type |-> "Quantity", repr |-> m, magnitude |-> m,
            uncertainty |-> "", dimensionality |-> d] :
             m \in Magnitudes, d \in QuantityDims }
    \cup { [type |-> "UncertainQuantity", repr |-> m, magnitude |-> m,
            uncertainty |-> u, dimensionality |-> d] :
             m \in Magnitudes, u \in Uncertainties, d \in QuantityDims }

OptionValues ==
    { None,
      [type |-> "dict", items |-> <<"round-precision=3">>],
      [type |-> "dict",
       items |-> <<"round-mode=figures", "round-precision=3">>] }

Callbacks == {None, [type |-> "function", name |-> "format_cb"]}

----------------------------------------------------------------------------
(* The operations. *)

\* a call of _dimensionality_to_siunitx(dim)
Translate ==
    /\ ncalls < MaxCalls
    /\ string' = _dimensionality_to_siunitx(dim)
    /\ ncalls' = ncalls + 1
    /\ pc' = "done"
    /\ UNCHANGED <<dim, quantity, options, format_cb, self, calls>>

\* Quantity(q, options=o, format_cb=cb)
Quantity__init__ ==
    \E q \in Quantities, o \in OptionValues, cb \in Callbacks :
        LET obj == [NewObject EXCEPT
                        !.attrs = {"quantity", "_format_cb"},
                        !.quantity = q,
                        !._format_cb = cb]
            r == dispatch(obj, q, o, cb)
        IN  /\ quantity' = q
            /\ options' = o
            /\ format_cb' = cb
            /\ self' = disable_escaping(r.obj)
            /\ calls' = r.calls
            /\ UNCHANGED <<pc, dim, string, ncalls>>

NoObject ==
    /\ quantity = None
    /\ options = None
    /\ format_cb = None
    /\ self = NewObject
    /\ calls = <<>>

\* the translator called on its own
InitDim ==
    /\ pc = "ready"
    /\ dim \in Dims
    /\ string = <<>>
    /\ ncalls = 0
    /\ NoObject

NextDim == Translate

SpecDim == InitDim /\ [][NextDim]_vars

\* the constructor
Init ==
    /\ pc = "ready"
    /\ dim = <<>>
    /\ string = <<>>
    /\ ncalls = 0
    /\ NoObject

Next == Quantity__init__

Spec == Init /\ [][Next]_vars

----------------------------------------------------------------------------
(* Properties of _dimensionality_to_siunitx, checked under SpecDim. *)

\* the items of a mapping whose power is not zero, in the mapping's order
NonZeroItems(m) == SelectSeq(m, LAMBDA it : it[2] # 0)

RECURSIVE SumLen(_)
SumLen(items) ==
    IF items = <<>> THEN 0
    ELSE Len(substring(items[1][1], items[1][2])) + SumLen(Tail(items))

\* C1: a unit with exponent 0 contributes nothing: the output is the output
\* for the mapping without its zero-exponent units, it is as long as the
\* substrings of the other units together, and it is empty when every
\* exponent is 0.
C1_ZeroExponentContributesNothing ==
    pc = "done" =>
        /\ string = _dimensionality_to_siunitx(NonZeroItems(dim))
        /\ Len(string) = SumLen(NonZeroItems(dim))
        /\ (NonZeroItems(dim) = <<>> => string = <<>>)

C1_Witness ==
    /\ pc = "done"
    /\ \E i, j \in 1 .. Len(dim) : dim[i][2] = 0 /\ dim[j][2] # 0
    /\ string # <<>>

\* the items of power p, p - 1, ..., lo, each group in the mapping's order
RECURSIVE ByDescendingPower(_, _, _)
ByDescendingPower(m, p, lo) ==
    IF p < lo THEN <<>>
    ELSE SelectSeq(m, LAMBDA it : it[2] = p) \o ByDescendingPower(m, p - 1, lo)

RECURSIVE Flatten(_)
Flatten(parts) ==
    IF parts = <<>> THEN <<>> ELSE Head(parts) \o Flatten(Tail(parts))

\* the parts of the items, one after the other without separators
Joined(items, Part(_, _)) ==
    Flatten([i \in 1 .. Len(items) |-> Part(items[i][1], items[i][2])])

\* C2: the output is the concatenation, without separators, of the units'
\* substrings in descending order of signed exponent, units of equal
\* exponent in the mapping's order; a second call on the same mapping
\* returns the same output.
C2_StableDescendingOrder ==
    [][ /\ pc' = "done" =>
            string' = Joined(ByDescendingPower(dim', MaxPower, -MaxPower),
                             substring)
        /\ pc = "done" => string' = string ]_vars

C2_Witness ==
    /\ ncalls = 2
    /\ Len(dim) = 2
    /\ dim[1][2] = dim[2][2]
    /\ dim[1][2] # 0

\* the substring of C3: \per exactly for a negative exponent, \tothe{|p|}
\* exactly for |p| > 1
C3_Part(unit_name, p) ==
    LET abs == IF p < 0 THEN -p ELSE p
    IN  (IF p < 0 THEN PER ELSE <<>>)
        \o unit_markup(unit_name)
        \o (IF abs > 1 THEN TOTHE_OPEN \o <<Digit(abs)>> \o CLOSE_BRACE
            ELSE <<>>)

\* C3: the substring of a unit with exponent p # 0 starts with \per exactly
\* when p < 0 and ends with \tothe{|p|} exactly when |p| > 1;
\* {meter: 1, second: -1} gives \meter\per\second and {meter: 2} gives
\* \meter\tothe{2}.
C3_InverseMarkerAndExponentSuffix ==
    pc = "done" =>
        /\ string = Joined(NonZeroItems(sorted_reverse(dim)), C3_Part)
        /\ dim = << <<meter, 1>>, <<second, -1>> >> =>
              string = <<"\\","m","e","t","e","r",
                         "\\","p","e","r","\\","s","e","c","o","n","d">>
        /\ dim = << <<second, -1>>, <<meter, 1>> >> =>
              string = <<"\\","m","e","t","e","r",
                         "\\","p","e","r","\\","s","e","c","o","n","d">>
        /\ dim = << <<meter, 2>> >> =>
              string = <<"\\","m","e","t","e","r",
                         "\\","t","o","t","h","e","{","2","}">>
        /\ dim = << <<second, -1>> >> =>
              string = <<"\\","p","e","r","\\","s","e","c","o","n","d">>
        /\ dim = << <<second, -2>> >> =>
              string = <<"\\","p","e","r","\\","s","e","c","o","n","d",
                         "\\","t","o","t","h","e","{","2","}">>

C3_Witness ==
    /\ pc = "done"
    /\ \E i, j \in 1 .. Len(dim) : dim[i][2] = -2 /\ dim[j][2] = 1

\* the prefixes a unit name starts with, as positions in the prefix list
Matching(unit_name) ==
    {i \in 1 .. Len(prefixes) : startswith(unit_name, prefixes[i])}

First(S) == CHOOSE i \in S : \A j \in S : i <= j

\* the substring of C4: one prefix marker, for the first matching prefix,
\* between the inverse marker and the unit-name marker
C4_Part(unit_name, p) ==
    inverse_marker(p)
    \o (IF Matching(unit_name) = {}
        THEN BACKSLASH \o translate(unit_name)
        ELSE LET prefix == prefixes[First(Matching(unit_name))]
             IN  BACKSLASH \o prefix \o BACKSLASH
                 \o translate(SubSeq(unit_name, Len(prefix) + 1,
                                     Len(unit_name))))
    \o exponent_suffix(negated(p))

\* C4: a unit whose name starts with a prefix of the prefix set gets exactly
\* one prefix marker, for the first matching prefix in the set's order,
\* after the inverse marker and before the unit-name marker, and its display
\* name is the name without that prefix; a unit whose name starts with no
\* prefix gets no prefix marker and its full name.
C4_FirstMatchingPrefix ==
    pc = "done" =>
        string = Joined(NonZeroItems(sorted_reverse(dim)), C4_Part)

C4_Witness ==
    /\ pc = "done"
    /\ \E i, j \in 1 .. Len(dim) :
          /\ dim[i][2] < 0
          /\ Cardinality(Matching(dim[i][1])) > 1
          /\ dim[j][2] # 0
          /\ Matching(dim[j][1]) = {}

\* the name C5 expects after the unit-name marker
C5_Name(display_name) ==
    LET hits == {k \in DOMAIN UNIT_NAME_TRANSLATIONS : k = display_name}
    IN  IF hits = {} THEN display_name
        ELSE UNIT_NAME_TRANSLATIONS[CHOOSE k \in hits : TRUE]

C5_Part(unit_name, p) ==
    LET split == split_prefix(unit_name, 1)
    IN  inverse_marker(p) \o split.marker \o BACKSLASH \o C5_Name(split.name)
        \o exponent_suffix(negated(p))

\* C5: the name after the unit-name marker is the translation table's value
\* when the display name (the unit name without its prefix) is a key of the
\* table, and the display name otherwise.
C5_TranslationOfDisplayName ==
    pc = "done" =>
        /\ string = Joined(NonZeroItems(sorted_reverse(dim)), C5_Part)
        /\ dim = << <<milliarcdegree, 1>> >> =>
              string = <<"\\","m","i","l","l","i",
                         "\\","d","e","g","r","e","e">>
        /\ dim = << <<Celsius, 1>> >> =>
              string = <<"\\","c","e","l","s","i","u","s">>

C5_Witness ==
    /\ pc = "done"
    /\ \E i, j, k \in 1 .. Len(dim) :
          /\ dim[i][1] = milliarcdegree /\ dim[i][2] # 0
          /\ dim[j][1] \in {meter, Celsius} /\ dim[j][2] # 0
          /\ i # j

----------------------------------------------------------------------------
(* Properties of Quantity.__init__, checked under Spec. *)

\* __init__ has run
Constructed == self.attrs # {}

Dimensional == quantity.type \in {"Quantity", "UncertainQuantity"}

\* C6: the command is SI with exactly two arguments, the magnitude string
\* and then the translated unit string, if and only if the input is a
\* quantity, with or without uncertainty; otherwise the command is num with
\* the formatted number as its only argument; the options given are
\* attached unchanged in both cases.
C6_OneMacroShape ==
    Constructed =>
        /\ self.latex_name \in {"SI", "num"}
        /\ self.latex_name = "SI" <=> Dimensional
        /\ Len(self.arguments.items) = 2 <=> Dimensional
        /\ Dimensional =>
              self.arguments.items =
                  << magnitude_str(quantity, format_cb).value,
                     _dimensionality_to_siunitx(quantity.dimensionality) >>
        /\ ~Dimensional =>
              /\ self.latex_name = "num"
              /\ self.arguments.items = << _format(quantity, format_cb).result >>
        /\ options = None => self.options = None
        /\ options # None =>
              /\ self.options # None
              /\ self.options.items = options.items

C6_Witness ==
    /\ Constructed
    /\ quantity.type = "Quantity"
    /\ quantity.dimensionality = << <<meter, 1>>, <<second, -1>> >>
    /\ options # None
    /\ self.latex_name = "SI"

\* C7: for an uncertain quantity the first argument of SI is F(magnitude),
\* ' +- ', F(uncertainty), with the same formatting rule F for both, and
\* the second argument is the translated unit string; it is never rendered
\* by the magnitude alone.
C7_UncertainQuantity ==
    (Constructed /\ quantity.type = "UncertainQuantity") =>
        LET m == _format([type |-> "ndarray", repr |-> quantity.magnitude],
                         format_cb).result
            u == _format([type |-> "Quantity", repr |-> quantity.uncertainty],
                         format_cb).result
        IN  /\ self.latex_name = "SI"
            /\ self.arguments.items[1] = m \o <<" ", "+", "-", " ">> \o u
            /\ self.arguments.items[1] # m
            /\ self.arguments.items[2] =
                   _dimensionality_to_siunitx(quantity.dimensionality)

C7_Witness ==
    /\ Constructed
    /\ quantity.type = "UncertainQuantity"
    /\ quantity.magnitude = "16.0"
    /\ quantity.uncertainty = "0.3"
    /\ quantity.dimensionality = << <<meter, 1>> >>
    /\ format_cb = None

\* C8: after __init__, on the num and on the SI branch, escaping is
\* disabled on the argument list; it is disabled on the options list if and
\* only if options are present, and without options the options field
\* stays absent.
C8_EscapingDisabled ==
    Constructed =>
        /\ self.arguments._escape = FALSE
        /\ options # None <=> self.options # None
        /\ self.options # None => self.options._escape = FALSE

C8_Witness ==
    /\ Constructed
    /\ self.latex_name = "num"
    /\ options # None
    /\ self.options._escape = FALSE

\* the input is neither a number nor a quantity
Unrecognized == quantity.type = "str"

\* C9 as stated: constructing the wrapper from a value that is neither a
\* number nor a quantity leaves the command and the arguments unset.
C9_LeftUnset ==
    (Constructed /\ Unrecognized) =>
        /\ "latex_name" \notin self.attrs
        /\ "arguments" \notin self.attrs

\* C9 as amended: such a value takes the plain-number branch: the command
\* is num, its only argument is the formatted value, and every attribute of
\* the object is set.
C9_RenderedAsNumber ==
    (Constructed /\ Unrecognized) =>
        /\ {"latex_name", "arguments", "options"} \subseteq self.attrs
        /\ self.latex_name = "num"
        /\ self.arguments.items =
              << IF format_cb = None
                 THEN <<"escape_latex(", quantity.repr, ")">>
                 ELSE <<format_cb.name, "(", quantity.repr, ")">> >>

C9_Witness ==
    /\ Constructed
    /\ Unrecognized
    /\ format_cb = None
    /\ self.latex_name = "num"

\* the values __init__ formats, in order
Formatted ==
    IF quantity.type = "UncertainQuantity"
    THEN << [type |-> "ndarray", repr |-> quantity.magnitude],
            [type |-> "Quantity", repr |-> quantity.uncertainty] >>
    ELSE IF quantity.type = "Quantity"
    THEN << [type |-> "ndarray", repr |-> quantity.magnitude] >>
    ELSE << [type |-> quantity.type, repr |-> quantity.repr] >>

IsArray(val) == val.type \in {"ndarray", "Quantity", "UncertainQuantity"}

\* the result C10 expects for one value
C10_Result(val) ==
    IF format_cb # None THEN <<format_cb.name, "(", val.repr, ")">>
    ELSE IF IsArray(val) THEN <<"np.array_str(", val.repr, ")">>
    ELSE <<"escape_latex(", val.repr, ")">>

\* the calls C10 expects for one value
C10_Calls(val) ==
    IF format_cb # None THEN << <<"format_cb", val.repr>> >>
    ELSE IF IsArray(val) THEN << <<"np.array_str", val.repr>> >>
    ELSE << <<"np.array_str", val.repr>>, <<"escape_latex", val.repr>> >>

\* C10: every number the wrapper formats goes through one chain: with a
\* callback the result is the callback's and neither np.array_str nor
\* escape_latex is called; without one the result is np.array_str's, and
\* escape_latex's only when np.array_str raised AttributeError.
C10_FormatChain ==
    Constructed =>
        /\ calls = Flatten([i \in 1 .. Len(Formatted) |->
                               C10_Calls(Formatted[i])])
        /\ self.arguments.items[1] =
              IF Len(Formatted) = 2
              THEN C10_Result(Formatted[1]) \o PLUS_MINUS
                       \o C10_Result(Formatted[2])
              ELSE C10_Result(Formatted[1])
        /\ format_cb # None =>
              \A i \in 1 .. Len(calls) : calls[i][1] = "format_cb"

C10_Witness ==
    /\ Constructed
    /\ format_cb # None
    /\ quantity.type = "UncertainQuantity"
    /\ Len(calls) = 2

====
